---- MODULE Spec2Model ----
(***************************************************************************)
(* A model of src/src/model_export.py: the module-level creation of the    *)
(* models/ directory, the six format exporters and the export_model        *)
(* dispatcher.  The framework libraries' save calls are the environment:   *)
(* each one either writes its file or raises.                              *)
(***************************************************************************)
EXTENDS Naturals, Sequences, FiniteSets, TLC

\* Number of calls (export_model or an exporter) made in one behaviour.
MaxCalls == 2

(***************************************************************************)
(* Strings that the code inspects character by character (the framework    *)
(* tag, through str.lower) are sequences of one-character strings.         *)
(***************************************************************************)
UpperChars ==
    << "A", "B", "C", "D", "E", "F", "G", "H", "I", "J", "K", "L", "M",
       "N", "O", "P", "Q", "R", "S", "T", "U", "V", "W", "X", "Y", "Z" >>

LowerChars ==
    << "a", "b", "c", "d", "e", "f", "g", "h", "i", "j", "k", "l", "m",
       "n", "o", "p", "q", "r", "s", "t", "u", "v", "w", "x", "y", "z" >>

\* str.lower on one character: cased letters map to lowercase, others stay.
LowerChar(c) ==
    IF \E i \in DOMAIN UpperChars : UpperChars[i] = c
    THEN LowerChars[CHOOSE i \in DOMAIN UpperChars : UpperChars[i] = c]
    ELSE c

\* str.lower
Lower(s) == [i \in 1..Len(s) |-> LowerChar(s[i])]

\* The string literals of the if/elif chain of export_model.
StrSklearn  == << "s", "k", "l", "e", "a", "r", "n" >>
StrPytorch  == << "p", "y", "t", "o", "r", "c", "h" >>
StrXgboost  == << "x", "g", "b", "o", "o", "s", "t" >>
StrLightgbm == << "l", "i", "g", "h", "t", "g", "b", "m" >>
StrCatboost == << "c", "a", "t", "b", "o", "o", "s", "t" >>
StrKeras    == << "k", "e", "r", "a", "s" >>

\* The framework tags a caller passes in this model: every literal of the
\* chain, one upper- or mixed-case spelling of each, and tags that match none.
Tags ==
    { StrSklearn, StrPytorch, StrXgboost, StrLightgbm, StrCatboost, StrKeras,
      << "S", "K", "L", "E", "A", "R", "N" >>,
      << "P", "y", "T", "o", "r", "c", "h" >>,
      << "X", "G", "B", "O", "O", "S", "T" >>,
      << "L", "i", "g", "h", "t", "G", "B", "M" >>,
      << "C", "a", "t", "B", "o", "o", "s", "t" >>,
      << "K", "e", "r", "a", "s" >>,
      << "f", "o", "o" >>,
      << "F", "o", "o" >>,
      << >> }

\* The exporter functions.
Exporters ==
    { "export_sklearn_model", "export_pytorch_model", "export_xgboost_model",
      "export_lightgbm_model", "export_catboost_model", "export_keras_model" }

NoExporter == "none"

\* Model handles, output names and sample inputs the callers use.
Models == { "m1", "m2" }
DefaultName == "model"
Names == { DefaultName, "net" }
Samples == { "x" }
NoSample == "none"

\* **kwargs of export_model: any subset of the keywords name, sample_input.
KwargsSet ==
    { kw \in UNION { [D -> (Names \ {DefaultName}) \cup Samples] :
                        D \in SUBSET { "name", "sample_input" } } :
        /\ "name" \in DOMAIN kw => kw["name"] \in Names
        /\ "sample_input" \in DOMAIN kw => kw["sample_input"] \in Samples }

NoKwargs == [k \in {} |-> ""]

(***************************************************************************)
(* The filesystem under models/.                                           *)
(***************************************************************************)
Suffixes ==
    { ".pkl", ".joblib", ".bin", ".pt", ".onnx", ".json", ".txt", ".cbm",
      ".h5", "_saved_model", ".tflite" }

\* f"models/{name}<suffix>"
Path(name, suffix) == [base |-> name, suffix |-> suffix]

Paths == [base : Names, suffix : Suffixes]

Absent == [exists |-> FALSE, data |-> << >>]
File(blob) == [exists |-> TRUE, data |-> << blob >>]

\* What a native save call serialises: the format it writes and the model;
\* the ONNX export also traces the model on the sample input.
Blob(fmt, model, sample) ==
    IF fmt = "onnx" THEN << fmt, model, sample >> ELSE << fmt, model >>

\* A native save call that succeeds replaces whatever the path held.
NativeSaveAppends(f, p, blob) ==
    [f EXCEPT ![p] = [exists |-> TRUE, data |-> Append(f[p].data, blob)]]

NativeSave(f, p, blob) == [f EXCEPT ![p] = File(blob)]

\* The filesystem after a native save call on path p has raised: no exporter
\* has a handler, so nothing is done to the files written before it.  The
\* failing call is taken to raise before it changes its target.
FailedSaveCleansUp(f, p) ==
    [q \in Paths |-> IF q.base = p.base THEN Absent ELSE f[q]]

FailedSave(f, p) == f

\* os.makedirs("models", exist_ok=True): the directory exists afterwards,
\* whether or not it existed before.
MakeDirsSkipped(exists) == exists

MakeDirs(exists) == TRUE

(***************************************************************************)
(* The exporters: the native save calls of each, in the order of the code, *)
(* with the suffix of the path and the format written.                     *)
(***************************************************************************)
Art(suffix, fmt) == [suffix |-> suffix, fmt |-> fmt]

SklearnArtifacts ==
    << Art(".pkl", "joblib"), Art(".joblib", "joblib"), Art(".bin", "joblib") >>

PytorchArtifacts ==
    << Art(".pt", "state_dict"), Art(".bin", "state_dict"), Art(".onnx", "onnx") >>

XgboostArtifacts == << Art(".bin", "xgb_binary"), Art(".json", "xgb_json") >>

LightgbmArtifacts == << Art(".bin", "lgb_text"), Art(".txt", "lgb_text") >>

CatboostArtifacts == << Art(".bin", "cbm"), Art(".cbm", "cbm") >>

KerasArtifacts ==
    << Art(".h5", "h5"), Art("_saved_model", "tf"), Art(".tflite", "tflite") >>

ArtifactsXgboostBinOnly(e) ==
    CASE e = "export_sklearn_model"  -> SklearnArtifacts
      [] e = "export_pytorch_model"  -> PytorchArtifacts
      [] e = "export_xgboost_model"  -> << Art(".bin", "xgb_binary") >>
      [] e = "export_lightgbm_model" -> LightgbmArtifacts
      [] e = "export_catboost_model" -> CatboostArtifacts
      [] e = "export_keras_model"    -> KerasArtifacts

ArtifactsLightgbmJson(e) ==
    CASE e = "export_sklearn_model"  -> SklearnArtifacts
      [] e = "export_pytorch_model"  -> PytorchArtifacts
      [] e = "export_xgboost_model"  -> XgboostArtifacts
      [] e = "export_lightgbm_model" ->
            << Art(".bin", "lgb_text"), Art(".json", "lgb_text") >>
      [] e = "export_catboost_model" -> CatboostArtifacts
      [] e = "export_keras_model"    -> KerasArtifacts

Artifacts(e) ==
    CASE e = "export_sklearn_model"  -> SklearnArtifacts
      [] e = "export_pytorch_model"  -> PytorchArtifacts
      [] e = "export_xgboost_model"  -> XgboostArtifacts
      [] e = "export_lightgbm_model" -> LightgbmArtifacts
      [] e = "export_catboost_model" -> CatboostArtifacts
      [] e = "export_keras_model"    -> KerasArtifacts

\* The parameters of each exporter, in order.
Params(e) ==
    IF e = "export_pytorch_model"
    THEN << "model", "sample_input", "name" >>
    ELSE << "model", "name" >>

\* How many arguments export_model passes positionally to the exporter.
Positional(e) == IF e = "export_pytorch_model" THEN 2 ELSE 1

(***************************************************************************)
(* Errors.                                                                 *)
(***************************************************************************)
NoError == [type |-> "none", msg |-> "", arg |-> << >>]

UnsupportedErrorNoTag(framework) ==
    [type |-> "ValueError", msg |-> "Unsupported framework: ", arg |-> << >>]

\* ValueError(f"Unsupported framework: {framework}")
UnsupportedError(framework) ==
    [type |-> "ValueError", msg |-> "Unsupported framework: ", arg |-> framework]

\* ValueError("PyTorch export requires 'sample_input' argument")
MissingError ==
    [type |-> "ValueError",
     msg |-> "PyTorch export requires 'sample_input' argument",
     arg |-> << >>]

\* kwargs["sample_input"] on a mapping without that key
KeyError == [type |-> "KeyError", msg |-> "sample_input", arg |-> << >>]

\* Python's argument binding rejecting the call of an exporter.
TypeError(msg) == [type |-> "TypeError", msg |-> msg, arg |-> << >>]

\* Whatever the k-th native save call of exporter e raises.
NativeError(e, k) == [type |-> "NativeError", msg |-> e, arg |-> << k >>]

(***************************************************************************)
(* export_model: normalisation, the if/elif chain, the sample_input check  *)
(* and the binding of **kwargs to the exporter's parameters.               *)
(***************************************************************************)
NormalizeKeepsCase(framework) == framework

\* framework = framework.lower()
Normalize(framework) == Lower(framework)

SelectDefaultsToSklearn(framework) ==
    IF framework = StrPytorch THEN "export_pytorch_model"
    ELSE IF framework = StrXgboost THEN "export_xgboost_model"
    ELSE IF framework = StrLightgbm THEN "export_lightgbm_model"
    ELSE IF framework = StrCatboost THEN "export_catboost_model"
    ELSE IF framework = StrKeras THEN "export_keras_model"
    ELSE "export_sklearn_model"

\* The branch of the if/elif chain taken for the (normalised) framework.
Select(framework) ==
    IF framework = StrSklearn THEN "export_sklearn_model"
    ELSE IF framework = StrPytorch THEN "export_pytorch_model"
    ELSE IF framework = StrXgboost THEN "export_xgboost_model"
    ELSE IF framework = StrLightgbm THEN "export_lightgbm_model"
    ELSE IF framework = StrCatboost THEN "export_catboost_model"
    ELSE IF framework = StrKeras THEN "export_keras_model"
    ELSE NoExporter

MissingSampleUnchecked(kw) == FALSE

\* "sample_input" not in kwargs
MissingSample(kw) == "sample_input" \notin DOMAIN kw

\* Binding exporter(<positional arguments>, **kw): a keyword that names no
\* parameter, or one that names a parameter already filled positionally, is
\* a TypeError.
BindError(e, kw) ==
    IF \E k \in DOMAIN kw : \A i \in 1..Len(Params(e)) : Params(e)[i] # k
    THEN TypeError("got an unexpected keyword argument")
    ELSE IF \E k \in DOMAIN kw : \E i \in 1..Positional(e) : Params(e)[i] = k
    THEN TypeError("got multiple values for argument")
    ELSE NoError

\* The value of parameter name after binding: the keyword or the default.
BoundName(kw) == IF "name" \in DOMAIN kw THEN kw["name"] ELSE DefaultName


(***************************************************************************)
(* State.                                                                  *)
(***************************************************************************)
VARIABLES
    imported,     \* the module has been imported (its top level has run)
    dirExists,    \* the directory models/ exists
    fs,           \* the content of every path under models/
    pc,           \* "idle" between calls; "returned" or "raised" when a
                  \* call has ended and its caller has not yet gone on
    entry,        \* the function the caller called: "export_model", "direct"
    supplied,     \* the framework argument as the caller passed it
    framework,    \* the local variable framework of export_model
    kwargs,       \* the **kwargs of export_model
    model,        \* the model argument
    exporter,     \* the exporter export_model selected, or the one called
    invoked,      \* the exporters whose body was entered in this call
    name,         \* the exporter's parameter name
    sample_input, \* the exporter's parameter sample_input
    step,         \* native save calls of this call that succeeded
    attempts,     \* native save calls of this call that were made
    written,      \* the paths this call has written
    error,        \* the exception the caller of this call receives
    fsBefore,     \* fs when this call was made
    calls,        \* calls made so far
    prevOk,       \* the preceding call, when it returned normally
    lastOk,       \* per name and exporter, the model and sample input of the
                  \* exporter's last normal return
    lastBin,      \* per name, the exporter, model and sample input of the last
                  \* normal return of an exporter that writes <name>.bin
    dirty         \* names under which an export has raised

vars ==
    << imported, dirExists, fs, pc, entry, supplied, framework, kwargs, model,
       exporter, invoked, name, sample_input, step, attempts, written, error,
       fsBefore, calls, prevOk, lastOk, lastBin, dirty >>

NoCall == << >>
NoModel == "none"

Init ==
    /\ imported = FALSE
    /\ dirExists \in BOOLEAN
    /\ fs = [p \in Paths |-> Absent]
    /\ pc = "idle"
    /\ entry = "none"
    /\ supplied = << >>
    /\ framework = << >>
    /\ kwargs = NoKwargs
    /\ model = NoModel
    /\ exporter = NoExporter
    /\ invoked = << >>
    /\ name = DefaultName
    /\ sample_input = NoSample
    /\ step = 0
    /\ attempts = 0
    /\ written = {}
    /\ error = NoError
    /\ fsBefore = fs
    /\ calls = 0
    /\ prevOk = NoCall
    /\ lastOk = [n \in Names |-> [e \in Exporters |-> NoCall]]
    /\ lastBin = [n \in Names |-> NoCall]
    /\ dirty = {}

\* import of the module: its top level runs os.makedirs.
Import ==
    /\ ~imported
    /\ imported' = TRUE
    /\ dirExists' = MakeDirs(dirExists)
    /\ UNCHANGED << fs, pc, entry, supplied, framework, kwargs, model, exporter,
                    invoked, name, sample_input, step, attempts, written, error,
                    fsBefore, calls, prevOk, lastOk, lastBin, dirty >>

\* What every call starts with: the module is imported, the caller is
\* between calls (the code is single-threaded and synchronous).
BeginCall ==
    /\ imported
    /\ pc = "idle"
    /\ calls < MaxCalls
    /\ calls' = calls + 1
    /\ UNCHANGED << imported, dirExists, fsBefore, prevOk >>

\* The path of the i-th artifact of exporter e for output name n.
ArtifactPath(e, n, i) == Path(n, Artifacts(e)[i].suffix)

\* The filesystem after the save calls i..upto of exporter e have succeeded.
RECURSIVE SaveAll(_, _, _, _, _, _, _)
SaveAll(f, e, m, n, s, i, upto) ==
    IF i > upto
    THEN f
    ELSE SaveAll(NativeSave(f, ArtifactPath(e, n, i),
                            Blob(Artifacts(e)[i].fmt, m, s)),
                 e, m, n, s, i + 1, upto)

\* Does exporter e write <name>.bin?
WritesBin(e) ==
    \E i \in 1..Len(Artifacts(e)) : Artifacts(e)[i].suffix = ".bin"

\* The body of exporter e(m, name=n) (sample input s): its native save calls
\* in order, then the message and the return.  k = 0: every save call
\* succeeds; k > 0: the k-th save call raises, the exception leaves the
\* exporter (and export_model) and nothing after it runs.  Without the
\* directory the first save call raises.
RunExporter(e, m, n, s, k) ==
    LET len  == Len(Artifacts(e))
        done == IF k = 0 THEN len ELSE k - 1
        saved == SaveAll(fs, e, m, n, s, 1, done)
    IN  /\ k \in 0..len
        /\ dirExists \/ k = 1
        /\ invoked' = << e >>
        /\ name' = n
        /\ sample_input' = s
        /\ step' = done
        /\ attempts' = IF k = 0 THEN len ELSE k
        /\ written' = { ArtifactPath(e, n, i) : i \in 1..done }
        /\ IF k = 0
           THEN /\ fs' = saved
                /\ error' = NoError
                /\ pc' = "returned"
                /\ lastOk' = [lastOk EXCEPT ![n][e] = << m, s >>]
                /\ lastBin' = IF WritesBin(e)
                              THEN [lastBin EXCEPT ![n] = << e, m, s >>]
                              ELSE lastBin
                /\ dirty' = dirty
           ELSE /\ fs' = FailedSave(saved, ArtifactPath(e, n, k))
                /\ error' = NativeError(e, k)
                /\ pc' = "raised"
                /\ dirty' = dirty \cup { n }
                /\ UNCHANGED << lastOk, lastBin >>

\* export_model raises err itself, before any exporter runs.
Raise(err) ==
    /\ pc' = "raised"
    /\ error' = err
    /\ invoked' = << >>
    /\ name' = DefaultName
    /\ sample_input' = NoSample
    /\ step' = 0
    /\ attempts' = 0
    /\ written' = {}
    /\ UNCHANGED << fs, lastOk, lastBin, dirty >>

\* export_model(m, t, **kw).
ExportModel(m, t, kw) ==
    /\ BeginCall
    /\ entry' = "export_model"
    /\ supplied' = t
    /\ kwargs' = kw
    /\ model' = m
    /\ framework' = Normalize(t)
    /\ exporter' = Select(framework')
    /\ IF exporter' = NoExporter
       THEN Raise(UnsupportedError(framework'))
       ELSE IF exporter' = "export_pytorch_model" /\ MissingSample(kw)
       THEN Raise(MissingError)
       ELSE IF exporter' = "export_pytorch_model"
               /\ "sample_input" \notin DOMAIN kw
       THEN Raise(KeyError)
       ELSE IF BindError(exporter', kw) # NoError
       THEN Raise(BindError(exporter', kw))
       ELSE \E k \in 0..Len(Artifacts(exporter')) :
                RunExporter(exporter', m, BoundName(kw),
                            IF exporter' = "export_pytorch_model"
                            THEN kw["sample_input"] ELSE NoSample,
                            k)

\* A direct call of exporter e: e(m, name=n), and the sample input s for
\* export_pytorch_model.
CallExporter(e, m, n, s) ==
    /\ BeginCall
    /\ entry' = "direct"
    /\ supplied' = << >>
    /\ framework' = << >>
    /\ kwargs' = NoKwargs
    /\ model' = m
    /\ exporter' = e
    /\ \E k \in 0..Len(Artifacts(e)) :
           RunExporter(e, m, n,
                       IF e = "export_pytorch_model" THEN s ELSE NoSample, k)

\* The caller goes on after a call has returned or raised: the frames of the
\* call are gone, the files stay.
Return ==
    /\ pc \in { "returned", "raised" }
    /\ pc' = "idle"
    /\ prevOk' = IF pc = "returned" THEN << exporter, name, model >> ELSE NoCall
    /\ fsBefore' = fs
    /\ entry' = "none"
    /\ supplied' = << >>
    /\ framework' = << >>
    /\ kwargs' = NoKwargs
    /\ model' = NoModel
    /\ exporter' = NoExporter
    /\ invoked' = << >>
    /\ name' = DefaultName
    /\ sample_input' = NoSample
    /\ step' = 0
    /\ attempts' = 0
    /\ written' = {}
    /\ error' = NoError
    /\ UNCHANGED << imported, dirExists, fs, calls, lastOk, lastBin, dirty >>

Next ==
    \/ Import
    \/ Return
    \/ \E m \in Models, t \in Tags, kw \in KwargsSet : ExportModel(m, t, kw)
    \/ \E e \in Exporters, m \in Models, n \in Names, s \in Samples :
           CallExporter(e, m, n, s)

Spec == Init /\ [][Next]_vars

(***************************************************************************)
(* The documented interface (spec.md, section 6), against which the        *)
(* claims are stated.                                                      *)
(***************************************************************************)
SupportedTags ==
    { StrSklearn, StrPytorch, StrXgboost, StrLightgbm, StrCatboost, StrKeras }

ExporterOf(tag) ==
    CASE tag = StrSklearn  -> "export_sklearn_model"
      [] tag = StrPytorch  -> "export_pytorch_model"
      [] tag = StrXgboost  -> "export_xgboost_model"
      [] tag = StrLightgbm -> "export_lightgbm_model"
      [] tag = StrCatboost -> "export_catboost_model"
      [] tag = StrKeras    -> "export_keras_model"

Documented(e) ==
    CASE e = "export_sklearn_model"  -> { ".pkl", ".joblib", ".bin" }
      [] e = "export_pytorch_model"  -> { ".pt", ".bin", ".onnx" }
      [] e = "export_xgboost_model"  -> { ".bin", ".json" }
      [] e = "export_lightgbm_model" -> { ".bin", ".txt" }
      [] e = "export_catboost_model" -> { ".bin", ".cbm" }
      [] e = "export_keras_model"    -> { ".h5", "_saved_model", ".tflite" }

Ended == pc \in { "returned", "raised" }

SomeFileBefore == \E p \in Paths : fsBefore[p].exists

IsUnsupportedError == error.msg = "Unsupported framework: "

(***************************************************************************)
(* C1.  export_model called with tag "pytorch", a name and a sample input  *)
(* completes without error and leaves <name>.pt, <name>.bin and            *)
(* <name>.onnx on disk (whenever no native save call fails).               *)
(***************************************************************************)
C1_PytorchExportCompletes ==
    ( /\ Ended
      /\ entry = "export_model"
      /\ supplied = StrPytorch
      /\ "sample_input" \in DOMAIN kwargs
      /\ error.type # "NativeError" )
    => /\ pc = "returned"
       /\ \A s \in Documented("export_pytorch_model") :
              fs[Path(BoundName(kwargs), s)].exists

(***************************************************************************)
(* C2.  An exporter called directly with output name N, when it returns,   *)
(* has written exactly its documented artifacts, each named N plus the     *)
(* documented suffix, and has changed no other path.                       *)
(***************************************************************************)
C2_ExactArtifactSet ==
    (pc = "returned" /\ entry = "direct")
    => /\ written = { Path(name, s) : s \in Documented(exporter) }
       /\ \A p \in Paths :
              IF p \in written THEN fs[p].exists ELSE fs[p] = fsBefore[p]

C2_Witness ==
    /\ pc = "returned"
    /\ entry = "direct"
    /\ exporter = "export_keras_model"
    /\ name = "net"
    /\ SomeFileBefore

(***************************************************************************)
(* C3.  The exporter export_model selects is the one documented for the    *)
(* lowercase form of the supplied tag (none when that form is not a        *)
(* supported tag), and a call enters at most one exporter, the selected    *)
(* one.                                                                    *)
(***************************************************************************)
C3_CaseInsensitiveDispatch ==
    entry = "export_model"
    => /\ exporter = IF Lower(supplied) \in SupportedTags
                     THEN ExporterOf(Lower(supplied))
                     ELSE NoExporter
       /\ Len(invoked) <= 1
       /\ \A i \in 1..Len(invoked) : invoked[i] = exporter

C3_Witness ==
    /\ entry = "export_model"
    /\ supplied = << "X", "G", "B", "O", "O", "S", "T" >>
    /\ invoked = << "export_xgboost_model" >>
    /\ pc = "returned"

(***************************************************************************)
(* C4.  For a tag whose lowercase form is not a supported tag,             *)
(* export_model raises the "unsupported framework" error, enters no        *)
(* exporter, makes no native save call and leaves models/ as it was.       *)
(***************************************************************************)
C4_UnsupportedTagRejected ==
    (entry = "export_model" /\ Lower(supplied) \notin SupportedTags)
    => /\ pc = "raised"
       /\ error.type = "ValueError"
       /\ IsUnsupportedError
       /\ invoked = << >>
       /\ attempts = 0
       /\ written = {}
       /\ fs = fsBefore

C4_Witness ==
    /\ entry = "export_model"
    /\ supplied = << "f", "o", "o" >>
    /\ pc = "raised"
    /\ IsUnsupportedError
    /\ SomeFileBefore

(***************************************************************************)
(* C5.  export_model with a tag that lowercases to "pytorch" and no        *)
(* sample_input keyword raises the "missing required parameter" error      *)
(* before any export: no exporter entered, no save call, models/ as it     *)
(* was.                                                                    *)
(***************************************************************************)
C5_MissingSampleRejected ==
    ( /\ entry = "export_model"
      /\ Lower(supplied) = StrPytorch
      /\ "sample_input" \notin DOMAIN kwargs )
    => /\ pc = "raised"
       /\ error.type = "ValueError"
       /\ error.msg = "PyTorch export requires 'sample_input' argument"
       /\ invoked = << >>
       /\ attempts = 0
       /\ written = {}
       /\ fs = fsBefore

C5_Witness ==
    /\ entry = "export_model"
    /\ supplied = << "P", "y", "T", "o", "r", "c", "h" >>
    /\ "name" \in DOMAIN kwargs
    /\ "sample_input" \notin DOMAIN kwargs
    /\ pc = "raised"
    /\ SomeFileBefore

(***************************************************************************)
(* C6.  When the k-th native save call of an export raises, k >= 2, the    *)
(* caller receives that call's error, the artifacts 1..k-1 of the call are *)
(* on disk with the call's content, the artifacts from k on are as before  *)
(* the call, and exactly k save calls were made (none retried, none        *)
(* after the failure).                                                     *)
(***************************************************************************)
C6_PartialExportRemains ==
    (pc = "raised" /\ error.type = "NativeError" /\ error.arg[1] >= 2)
    => LET k == error.arg[1]
           arts == Artifacts(exporter)
       IN  /\ error = NativeError(exporter, k)
           /\ attempts = k
           /\ step = k - 1
           /\ \A i \in 1..Len(arts) :
                  LET p == Path(name, arts[i].suffix)
                  IN  IF i < k
                      THEN /\ p \in written
                           /\ fs[p] = File(Blob(arts[i].fmt, model, sample_input))
                      ELSE /\ p \notin written
                           /\ fs[p] = fsBefore[p]

C6_Witness ==
    /\ pc = "raised"
    /\ error = NativeError("export_keras_model", Len(KerasArtifacts))
    /\ fs[Path(name, ".h5")].exists
    /\ fs[Path(name, "_saved_model")].exists
    /\ ~fs[Path(name, ".tflite")].exists

(***************************************************************************)
(* C7.  A call of an exporter that directly follows a normal return of the *)
(* same exporter with the same model and output name fails only if a       *)
(* native save call fails, and when it returns models/ is exactly as the   *)
(* first call left it.                                                     *)
(***************************************************************************)
C7_SecondExportIdempotent ==
    (Ended /\ invoked = << exporter >> /\ prevOk = << exporter, name, model >>)
    => /\ pc = "raised" => error.type = "NativeError"
       /\ pc = "returned" =>
              /\ fs = fsBefore
              /\ \A s \in Documented(exporter) : fs[Path(name, s)].exists

C7_Witness ==
    /\ pc = "returned"
    /\ invoked = << exporter >>
    /\ prevOk = << exporter, name, model >>
    /\ exporter = "export_keras_model"
    /\ fs = fsBefore

(***************************************************************************)
(* C8.  As claimed: the "unsupported framework" error carries the tag the  *)
(* caller supplied.                                                        *)
(***************************************************************************)
C8_ErrorCarriesSuppliedTag ==
    (pc = "raised" /\ entry = "export_model" /\ IsUnsupportedError)
    => error.arg = supplied

(***************************************************************************)
(* C8, amended.  The "unsupported framework" error carries the lowercase   *)
(* form of the tag the caller supplied.                                    *)
(***************************************************************************)
C8_ErrorCarriesLowercasedTag ==
    (pc = "raised" /\ entry = "export_model" /\ IsUnsupportedError)
    => error.arg = Lower(supplied)

C8_Witness ==
    /\ pc = "raised"
    /\ IsUnsupportedError
    /\ supplied = << "F", "o", "o" >>
    /\ error.arg = << "f", "o", "o" >>

(***************************************************************************)
(* C9.  The create-if-absent step for models/ comes before any export:     *)
(* once the module is imported the directory exists, so it exists whenever *)
(* an exporter is entered or makes a save call.                            *)
(***************************************************************************)
C9_DirectoryExistsWhenWriting ==
    /\ imported => dirExists
    /\ (invoked # << >> \/ attempts > 0 \/ written # {}) => dirExists

C9_Witness ==
    /\ dirExists
    /\ invoked # << >>
    /\ written # {}

(***************************************************************************)
(* C10.  Exactly the sklearn, pytorch, xgboost, lightgbm and catboost      *)
(* exporters write <N>.bin.  For a name N under which no export has        *)
(* raised, <N>.bin holds what the most recent of their normal returns      *)
(* under N wrote, and every other documented artifact holds what the last  *)
(* normal return of its one exporter under N wrote (absent when there was  *)
(* none).                                                                  *)
(***************************************************************************)
BinWriters == Exporters \ { "export_keras_model" }

\* What exporter e, last returned with call c = << model, sample >>, left at
\* suffix s.
LeftBy(e, s, c) ==
    LET idx == { i \in 1..Len(Artifacts(e)) : Artifacts(e)[i].suffix = s }
    IN  IF c = NoCall \/ idx = {}
        THEN Absent
        ELSE File(Blob(Artifacts(e)[CHOOSE i \in idx : TRUE].fmt, c[1], c[2]))

C10_BinHoldsMostRecent ==
    /\ \A e \in Exporters : (".bin" \in Documented(e)) = (e \in BinWriters)
    /\ \A e \in Exporters : WritesBin(e) = (e \in BinWriters)
    /\ \A n \in Names \ dirty :
          /\ fs[Path(n, ".bin")] =
                 IF lastBin[n] = NoCall
                 THEN Absent
                 ELSE LeftBy(lastBin[n][1], ".bin",
                             << lastBin[n][2], lastBin[n][3] >>)
          /\ \A e \in Exporters : \A s \in Documented(e) \ { ".bin" } :
                 fs[Path(n, s)] = LeftBy(e, s, lastOk[n][e])

C10_Witness ==
    /\ pc = "returned"
    /\ name \notin dirty
    /\ exporter = "export_xgboost_model"
    /\ lastOk[name]["export_sklearn_model"] # NoCall
    /\ lastOk[name]["export_sklearn_model"][1] # model
    /\ fs[Path(name, ".bin")] = File(Blob("xgb_binary", model, NoSample))
    /\ fs[Path(name, ".pkl")].exists

====
